---- MODULE Spec2Model ----
(***************************************************************************)
(* A model of veltahq/kiv's engine package: the in-memory table store     *)
(* (CreateTable, DropTable, InsertRow, UpdateRow, DeleteRow, GetRowByID,  *)
(* GetAllRows, CountRows), the transaction tracker, and ParseQuery.       *)
(***************************************************************************)
EXTENDS Integers, Sequences, FiniteSets, TLC

VARIABLES Tables, last, txs, txCalls, query, parsed, mu, pc, call, local, ret,
          heap, held

vars == <<Tables, last, txs, txCalls, query, parsed, mu, pc, call, local, ret,
          heap, held>>


(***************************************************************************)
(* Bounds of the model.                                                    *)
(***************************************************************************)
\* rows held by the whole store (InsertRow is not offered beyond it)
MaxRows == 2

\* maps allocated for rows (InsertRow is not offered beyond it)
MaxMaps == 3

\* transactions begun
MaxTx == 2
\* CommitTransaction / RollbackTransaction calls made on one handle
MaxTxCalls == 2

\* tokens a query text carries after its head
MaxTail == 4

\* the error values of the package; nil is "no error"
nil == "nil"
ErrTableNotFound == "ErrTableNotFound"
ErrIDNotFound == "ErrIDNotFound"
ErrIDExists == "ErrIDExists"
ErrTableExists == "ErrTableExists"
ErrInvalidQuery == "ErrInvalidQuery"
ErrTransactionFailed == "ErrTransactionFailed"

(***************************************************************************)
(* Values.  A column value is an interface{}: it carries its dynamic type. *)
(***************************************************************************)
StrVal(s) == <<"string", s>>
IntVal(s) == <<"int", s>>

TableNames == {"t1", "t2"}
Ids == {"a", "b"}
Keys == {"id", "k"}
Vals == {StrVal("a"), StrVal("b"), IntVal("1")}

KVals == {StrVal("x")}

\* the values a caller may pass under a key
ValsOf(key) == IF key = "id" THEN Vals ELSE KVals

\* the data maps callers pass: every map from some of the keys to values
DataMaps ==
  UNION {{d \in [S -> Vals \cup KVals] : \A key \in S : d[key] \in ValsOf(key)} :
           S \in SUBSET Keys}

NoData == [x \in {} |-> StrVal("a")]

\* for key, value := range data { m[key] = value }
Merge(m, data) ==
  [key \in DOMAIN m \cup DOMAIN data |->
     IF key \in DOMAIN data THEN data[key] ELSE m[key]]

\* val, ok := row.Columns["id"].(string); ok && val == id
idMatches(row, id) ==
  /\ "id" \in DOMAIN row.Columns
  /\ row.Columns["id"][1] = "string"
  /\ row.Columns["id"][2] = id

\* the index of the first row the loop `for i, row := range rows` matches
\* against id, 0 when the loop ends without a match
RECURSIVE firstMatchFrom(_, _, _)
firstMatchFrom(rows, id, i) ==
  IF i > Len(rows) THEN 0
  ELSE IF idMatches(rows[i], id) THEN i
  ELSE firstMatchFrom(rows, id, i + 1)

firstMatch(rows, id) == firstMatchFrom(rows, id, 1)

rowKeyExists(rows, id) == firstMatch(rows, id) # 0

\* append(rows[:i], rows[i+1:]...), i counted from 1
RemoveAt(rows, i) ==
  [j \in 1..(Len(rows) - 1) |-> IF j < i THEN rows[j] ELSE rows[j + 1]]

(***************************************************************************)
(* The store's methods, as functions from the table map to the new table   *)
(* map and the values returned.                                            *)
(***************************************************************************)
\* CreateTable without the existence check: the table is (re)set to empty
CreateTableOverwrites(db, tableName) ==
  [db |-> [n \in DOMAIN db \cup {tableName} |->
             IF n = tableName THEN [Name |-> tableName, Rows |-> <<>>] ELSE db[n]],
   err |-> nil]

CreateTable(db, tableName) ==
  IF tableName \in DOMAIN db
  THEN [db |-> db, err |-> ErrTableExists]
  ELSE [db |-> db @@ (tableName :> [Name |-> tableName, Rows |-> <<>>]),
        err |-> nil]

DropTable(db, tableName) ==
  IF tableName \notin DOMAIN db
  THEN [db |-> db, err |-> ErrTableNotFound]
  ELSE [db |-> [n \in DOMAIN db \ {tableName} |-> db[n]], err |-> nil]

\* the row InsertRow builds: "id" is set first, then data is copied over it
newRowOf(id, data) == [Columns |-> Merge(("id" :> StrVal(id)), data)]

\* InsertRow appending before it looks for the id
InsertRowAppendsFirst(db, tableName, id, data) ==
  IF tableName \notin DOMAIN db
  THEN [db |-> db, err |-> ErrTableNotFound]
  ELSE LET table == db[tableName]
           appended == [db EXCEPT ![tableName].Rows =
                          Append(table.Rows, newRowOf(id, data))]
       IN IF rowKeyExists(table.Rows, id)
          THEN [db |-> appended, err |-> ErrIDExists]
          ELSE [db |-> appended, err |-> nil]

InsertRow(db, tableName, id, data) ==
  IF tableName \notin DOMAIN db
  THEN [db |-> db, err |-> ErrTableNotFound]
  ELSE LET table == db[tableName] IN
       IF rowKeyExists(table.Rows, id)
       THEN [db |-> db, err |-> ErrIDExists]
       ELSE [db |-> [db EXCEPT ![tableName].Rows =
                        Append(table.Rows, newRowOf(id, data))],
             err |-> nil]

\* UpdateRow storing newData in place of the row's columns
UpdateRowReplaces(db, tableName, id, newData) ==
  IF tableName \notin DOMAIN db
  THEN [db |-> db, err |-> ErrTableNotFound]
  ELSE LET table == db[tableName]
           i == firstMatch(table.Rows, id)
       IN IF i = 0
          THEN [db |-> db, err |-> ErrIDNotFound]
          ELSE [db |-> [db EXCEPT ![tableName].Rows[i].Columns = newData],
                err |-> nil]

UpdateRow(db, tableName, id, newData) ==
  IF tableName \notin DOMAIN db
  THEN [db |-> db, err |-> ErrTableNotFound]
  ELSE LET table == db[tableName]
           i == firstMatch(table.Rows, id)
       IN IF i = 0
          THEN [db |-> db, err |-> ErrIDNotFound]
          ELSE [db |-> [db EXCEPT ![tableName].Rows[i].Columns =
                           Merge(table.Rows[i].Columns, newData)],
                err |-> nil]

DeleteRow(db, tableName, id) ==
  IF tableName \notin DOMAIN db
  THEN [db |-> db, err |-> ErrTableNotFound]
  ELSE LET table == db[tableName]
           i == firstMatch(table.Rows, id)
       IN IF i = 0
          THEN [db |-> db, err |-> ErrIDNotFound]
          ELSE [db |-> [db EXCEPT ![tableName].Rows = RemoveAt(table.Rows, i)],
                err |-> nil]

\* Row{}: the zero row returned with an error
ZeroRow == [Columns |-> NoData]

GetRowByID(db, tableName, id) ==
  IF tableName \notin DOMAIN db
  THEN [row |-> ZeroRow, err |-> ErrTableNotFound]
  ELSE LET i == firstMatch(db[tableName].Rows, id) IN
       IF i = 0
       THEN [row |-> ZeroRow, err |-> ErrIDNotFound]
       ELSE [row |-> db[tableName].Rows[i], err |-> nil]

GetAllRows(db, tableName) ==
  IF tableName \notin DOMAIN db
  THEN [rows |-> <<>>, err |-> ErrTableNotFound]
  ELSE [rows |-> db[tableName].Rows, err |-> nil]

CountRows(db, tableName) ==
  IF tableName \notin DOMAIN db
  THEN [n |-> 0, err |-> ErrTableNotFound]
  ELSE [n |-> Len(db[tableName].Rows), err |-> nil]

(***************************************************************************)
(* ParseQuery.  A string is the sequence of its characters.                *)
(***************************************************************************)
\* the characters strings.Fields splits on (unicode.IsSpace, ASCII part)
isSpace(c) == c \in {" ", "\t", "\n", "\r", "\f"}

\* strings.Fields: the maximal runs of non-space characters, in order
RECURSIVE FieldsFrom(_, _, _, _)
FieldsFrom(s, i, cur, acc) ==
  IF i > Len(s)
  THEN IF cur = <<>> THEN acc ELSE Append(acc, cur)
  ELSE IF isSpace(s[i])
       THEN FieldsFrom(s, i + 1, <<>>, IF cur = <<>> THEN acc ELSE Append(acc, cur))
       ELSE FieldsFrom(s, i + 1, Append(cur, s[i]), acc)

Fields(s) == FieldsFrom(s, 1, <<>>, <<>>)

Lower == <<"a", "b", "c", "d", "e", "f", "g", "h", "i", "j", "k", "l", "m",
           "n", "o", "p", "q", "r", "s", "t", "u", "v", "w", "x", "y", "z">>
Upper == <<"A", "B", "C", "D", "E", "F", "G", "H", "I", "J", "K", "L", "M",
           "N", "O", "P", "Q", "R", "S", "T", "U", "V", "W", "X", "Y", "Z">>

upperChar(c) ==
  IF \E n \in 1..Len(Lower) : Lower[n] = c
  THEN Upper[CHOOSE n \in 1..Len(Lower) : Lower[n] = c]
  ELSE c

\* strings.ToUpper
ToUpper(s) == [n \in 1..Len(s) |-> upperChar(s[n])]

Digits == <<"0", "1", "2", "3", "4", "5", "6", "7", "8", "9">>
isDigit(c) == \E n \in 1..Len(Digits) : Digits[n] = c
digitVal(c) == (CHOOSE n \in 1..Len(Digits) : Digits[n] = c) - 1

\* the value of the run of decimal digits of s that starts at i
RECURSIVE scanNumber(_, _, _)
scanNumber(s, i, v) ==
  IF i <= Len(s) /\ isDigit(s[i])
  THEN scanNumber(s, i + 1, v * 10 + digitVal(s[i]))
  ELSE v

\* fmt.Sscan(tok, &limit) for an int: an optional sign, then the leading
\* decimal digits; what follows them is left unread.  With no digit there
\* Sscan returns an error (which ParseQuery drops) and limit keeps the value
\* cur it had.  (Tokens with a base prefix 0x/0b/0o or "_" are not drawn.)
Sscan(tok, cur) ==
  LET signed == tok # <<>> /\ tok[1] \in {"+", "-"}
      start == IF signed THEN 2 ELSE 1
  IN IF start <= Len(tok) /\ isDigit(tok[start])
     THEN IF signed /\ tok[1] = "-"
          THEN 0 - scanNumber(tok, start, 0)
          ELSE scanNumber(tok, start, 0)
     ELSE cur

kwWHERE == <<"W", "H", "E", "R", "E">>
kwORDER == <<"O", "R", "D", "E", "R">>
kwBY == <<"B", "Y">>
kwLIMIT == <<"L", "I", "M", "I", "T">>

\* parts[i], i counted from 0 as in the source
At(parts, i) == parts[i + 1]

NilQuery ==
  [Select |-> <<>>, From |-> <<>>, Where |-> <<>>, OrderBy |-> <<>>, Limit |-> 0]

\* the loop `for i := 4; i < len(parts); i++`; reading parts[i+1] past the
\* end of parts is a run-time panic (index out of range)
RECURSIVE parseLoop(_, _, _)
parseLoop(parts, i, q) ==
  IF i >= Len(parts)
  THEN [kind |-> "query", q |-> q, err |-> nil]
  ELSE LET kw == ToUpper(At(parts, i)) IN
       IF kw = kwWHERE
       THEN IF i + 1 >= Len(parts)
            THEN [kind |-> "panic", q |-> NilQuery, err |-> "index out of range"]
            ELSE parseLoop(parts, i + 2, [q EXCEPT !.Where = At(parts, i + 1)])
       ELSE IF kw = kwORDER
       THEN IF i + 2 < Len(parts) /\ ToUpper(At(parts, i + 1)) = kwBY
            THEN parseLoop(parts, i + 3, [q EXCEPT !.OrderBy = At(parts, i + 2)])
            ELSE parseLoop(parts, i + 1, q)
       ELSE IF kw = kwLIMIT
       THEN IF i + 1 < Len(parts)
            THEN parseLoop(parts, i + 2,
                           [q EXCEPT !.Limit = Sscan(At(parts, i + 1), q.Limit)])
            ELSE parseLoop(parts, i + 1, q)
       ELSE parseLoop(parts, i + 1, q)

ParseQuery(text) ==
  LET parts == Fields(text) IN
  IF Len(parts) < 4
  THEN [kind |-> "error", q |-> NilQuery, err |-> "Invalid query format provided"]
  ELSE parseLoop(parts, 4,
                 [Select |-> SubSeq(parts, 2, 3), From |-> At(parts, 3),
                  Where |-> <<>>, OrderBy |-> <<>>, Limit |-> 0])

(***************************************************************************)
(* The rows of one table as Go lays them out.  A Row is a struct holding a *)
(* map reference; table.Rows is a slice: a backing array, of which the     *)
(* first len cells are the rows.  maps and arrays are the maps and the     *)
(* backing arrays allocated so far (a reference is an index, 0 is nil),    *)
(* hdr is the slice db.Tables[tableName].Rows.  What a read method hands   *)
(* out is a copy of a Row struct or of the slice header, not of what they  *)
(* refer to.                                                               *)
(***************************************************************************)
\* Rows: []Row{}
NoHdr == [arr |-> 0, len |-> 0]

NoHeap == [maps |-> <<>>, arrays |-> <<>>, hdr |-> NoHdr]

\* cap(rows)
capOf(h, hdr) == IF hdr.arr = 0 THEN 0 ELSE Len(h.arrays[hdr.arr])

\* rows[n-1], with the map its Columns refers to
rowAt(h, hdr, n) == [Columns |-> h.maps[h.arrays[hdr.arr][n]]]

\* the rows a slice shows
rowsOf(h, hdr) == [n \in 1..hdr.len |-> rowAt(h, hdr, n)]

\* the capacity append grows a full slice of this capacity to
growCap(c) == IF c = 0 THEN 1 ELSE 2 * c

\* table.Rows = append(table.Rows, newRow): in place when there is room in
\* the backing array, in a new array that the old cells are copied to when
\* there is none
appendRow(h, ref) ==
  LET hdr == h.hdr IN
  IF hdr.len < capOf(h, hdr)
  THEN [h EXCEPT !.arrays[hdr.arr][hdr.len + 1] = ref, !.hdr.len = hdr.len + 1]
  ELSE LET grown == [n \in 1..growCap(capOf(h, hdr)) |->
                       IF n <= hdr.len THEN h.arrays[hdr.arr][n]
                       ELSE IF n = hdr.len + 1 THEN ref ELSE 0]
       IN [h EXCEPT !.arrays = Append(@, grown),
                    !.hdr = [arr |-> Len(h.arrays) + 1, len |-> hdr.len + 1]]

InsertRowInPlace(h, id, data) ==
  IF rowKeyExists(rowsOf(h, h.hdr), id)
  THEN [heap |-> h, err |-> ErrIDExists]
  ELSE [heap |-> appendRow([h EXCEPT !.maps = Append(@, newRowOf(id, data).Columns)],
                           Len(h.maps) + 1),
        err |-> nil]

\* table.Rows[i].Columns[key] = value: the map of the row is written
UpdateRowInPlace(h, id, newData) ==
  LET i == firstMatch(rowsOf(h, h.hdr), id) IN
  IF i = 0
  THEN [heap |-> h, err |-> ErrIDNotFound]
  ELSE [heap |-> [h EXCEPT !.maps[h.arrays[h.hdr.arr][i]] = Merge(@, newData)],
        err |-> nil]

\* append(table.Rows[:i], table.Rows[i+1:]...): the cells after i move down
\* by one in the same backing array, the last cell keeps what it held
DeleteRowInPlace(h, id) ==
  LET i == firstMatch(rowsOf(h, h.hdr), id) IN
  IF i = 0
  THEN [heap |-> h, err |-> ErrIDNotFound]
  ELSE [heap |-> [h EXCEPT !.arrays[h.hdr.arr] =
                              [n \in DOMAIN @ |->
                                 IF n >= i /\ n < h.hdr.len THEN @[n + 1] ELSE @[n]],
                           !.hdr.len = h.hdr.len - 1],
        err |-> nil]

\* what a caller holds of its last read
Held(kind, hdr, ref, rows) == [kind |-> kind, hdr |-> hdr, ref |-> ref, rows |-> rows]

NoHeld == Held("none", NoHdr, 0, <<>>)

(***************************************************************************)
(* Sequential callers of the store: one action per method, the whole       *)
(* method (lock, body, deferred unlock) in one step.  last records the     *)
(* call that was made and what it returned.                                *)
(***************************************************************************)
RECURSIVE SumRows(_, _)
SumRows(db, names) ==
  IF names = {} THEN 0
  ELSE LET n == CHOOSE x \in names : TRUE
       IN Len(db[n].Rows) + SumRows(db, names \ {n})

TotalRows(db) == SumRows(db, DOMAIN db)

Called(op, t, id, data, err, out) ==
  [op |-> op, table |-> t, id |-> id, data |-> data, err |-> err, out |-> out]

NoOut == <<>>

notStore == <<txs, txCalls, query, parsed, mu, pc, call, local, ret, heap, held>>

CallCreateTable ==
  \E t \in TableNames :
    LET r == CreateTable(Tables, t) IN
    /\ Tables' = r.db
    /\ last' = Called("CreateTable", t, "", NoData, r.err, NoOut)
    /\ UNCHANGED notStore

CallDropTable ==
  \E t \in TableNames :
    LET r == DropTable(Tables, t) IN
    /\ Tables' = r.db
    /\ last' = Called("DropTable", t, "", NoData, r.err, NoOut)
    /\ UNCHANGED notStore

CallInsertRow ==
  \E t \in TableNames, id \in Ids, data \in DataMaps :
    LET r == InsertRow(Tables, t, id, data) IN
    /\ TotalRows(Tables) < MaxRows
    /\ Tables' = r.db
    /\ last' = Called("InsertRow", t, id, data, r.err, NoOut)
    /\ UNCHANGED notStore

CallUpdateRow ==
  \E t \in TableNames, id \in Ids, data \in DataMaps :
    LET r == UpdateRow(Tables, t, id, data) IN
    /\ Tables' = r.db
    /\ last' = Called("UpdateRow", t, id, data, r.err, NoOut)
    /\ UNCHANGED notStore

CallDeleteRow ==
  \E t \in TableNames, id \in Ids :
    LET r == DeleteRow(Tables, t, id) IN
    /\ Tables' = r.db
    /\ last' = Called("DeleteRow", t, id, NoData, r.err, NoOut)
    /\ UNCHANGED notStore

CallGetRowByID ==
  \E t \in TableNames, id \in Ids :
    LET r == GetRowByID(Tables, t, id) IN
    /\ last' = Called("GetRowByID", t, id, NoData, r.err, r.row)
    /\ UNCHANGED Tables
    /\ UNCHANGED notStore

CallGetAllRows ==
  \E t \in TableNames :
    LET r == GetAllRows(Tables, t) IN
    /\ last' = Called("GetAllRows", t, "", NoData, r.err, r.rows)
    /\ UNCHANGED Tables
    /\ UNCHANGED notStore

CallCountRows ==
  \E t \in TableNames :
    LET r == CountRows(Tables, t) IN
    /\ last' = Called("CountRows", t, "", NoData, r.err, r.n)
    /\ UNCHANGED Tables
    /\ UNCHANGED notStore

\* main: Tables: make(map[string]engine.Table)
NoTables == [n \in {} |-> [Name |-> "", Rows |-> <<>>]]

InitIdle ==
  /\ txs = <<>>
  /\ txCalls = <<>>
  /\ query = <<>>
  /\ parsed = [kind |-> "none", q |-> NilQuery, err |-> nil]
  /\ mu = [w |-> 0, r |-> 0]
  /\ pc = <<>>
  /\ call = <<>>
  /\ local = <<>>
  /\ ret = <<>>
  /\ heap = NoHeap
  /\ held = NoHeld

Init ==
  /\ Tables = NoTables
  /\ last = Called("none", "", "", NoData, nil, NoOut)
  /\ InitIdle

Next ==
  \/ CallCreateTable
  \/ CallDropTable
  \/ CallInsertRow
  \/ CallUpdateRow
  \/ CallDeleteRow
  \/ CallGetRowByID
  \/ CallGetAllRows
  \/ CallCountRows

Spec == Init /\ [][Next]_vars

(***************************************************************************)
(* Query execution.  A Query built by a caller carries its strings as     *)
(* values of the store's kind ("t1", "id", "" for none).                   *)
(***************************************************************************)
Scan == "Scan"
Filter == "Filter"
Project == "Project"
Sort == "Sort"
LimitOp == "LimitOp"

\* an Operation; Parent is <<>> for a nil pointer, else <<the Operation
\* pointed to>> (an element, once appended, is never written again)
Operation(type, table, filter, columns, order, limit, parent) ==
  [Type |-> type, Table |-> table, Filter |-> filter, Columns |-> columns,
   Order |-> order, Limit |-> limit, Parent |-> parent]

\* &plan.Operations[len(plan.Operations)-1]
lastOf(ops) == <<ops[Len(ops)]>>

\* the planner emitting Sort ahead of Project
createExecutionPlanSortsFirst(q) ==
  LET scanned == <<Operation(Scan, q.From, "", <<>>, "", 0, <<>>)>>
      sorted ==
        IF q.OrderBy # ""
        THEN Append(scanned, Operation(Sort, "", "", <<>>, q.OrderBy, 0,
                                       lastOf(scanned)))
        ELSE scanned
      projected ==
        Append(sorted, Operation(Project, "", "", q.Select, "", 0,
                                 lastOf(sorted)))
  IN [plan |-> [Operations |-> projected], err |-> nil]

\* the planner emitting LimitOp whenever Limit is not negative
createExecutionPlanLimitsZero(q) ==
  LET scanned == <<Operation(Scan, q.From, "", <<>>, "", 0, <<>>)>>
      filtered ==
        IF q.Where # ""
        THEN Append(scanned, Operation(Filter, "", q.Where, <<>>, "", 0,
                                       lastOf(scanned)))
        ELSE scanned
      projected ==
        Append(filtered, Operation(Project, "", "", q.Select, "", 0,
                                   lastOf(filtered)))
      sorted ==
        IF q.OrderBy # ""
        THEN Append(projected, Operation(Sort, "", "", <<>>, q.OrderBy, 0,
                                         lastOf(projected)))
        ELSE projected
      limited ==
        IF q.Limit >= 0
        THEN Append(sorted, Operation(LimitOp, "", "", <<>>, "", q.Limit,
                                      lastOf(sorted)))
        ELSE sorted
  IN [plan |-> [Operations |-> limited], err |-> nil]

createExecutionPlan(q) ==
  LET scanned == <<Operation(Scan, q.From, "", <<>>, "", 0, <<>>)>>
      filtered ==
        IF q.Where # ""
        THEN Append(scanned, Operation(Filter, "", q.Where, <<>>, "", 0,
                                       lastOf(scanned)))
        ELSE scanned
      projected ==
        Append(filtered, Operation(Project, "", "", q.Select, "", 0,
                                   lastOf(filtered)))
      sorted ==
        IF q.OrderBy # ""
        THEN Append(projected, Operation(Sort, "", "", <<>>, q.OrderBy, 0,
                                         lastOf(projected)))
        ELSE projected
      limited ==
        IF q.Limit > 0
        THEN Append(sorted, Operation(LimitOp, "", "", <<>>, "", q.Limit,
                                      lastOf(sorted)))
        ELSE sorted
  IN [plan |-> [Operations |-> limited], err |-> nil]

evaluateFilter(row, filter) == TRUE

\* filterRows: a new slice of the rows evaluateFilter accepts
filterRows(rows, filter) == SelectSeq(rows, LAMBDA row : evaluateFilter(row, filter))

\* the new row projectRows builds from row
projectRow(row, columns) ==
  [Columns |->
     [col \in {columns[n] : n \in 1..Len(columns)} \cap DOMAIN row.Columns |->
        row.Columns[col]]]

\* projectRows: a new slice of new rows
projectRows(rows, columns) == [n \in 1..Len(rows) |-> projectRow(rows[n], columns)]

\* the comparator sortRows hands to sort.Slice
less(rows, i, j) == TRUE

swap(rows, i, j) == [rows EXCEPT ![i] = rows[j], ![j] = rows[i]]

\* for j := i; j > a && less(j, j-1); j-- { swap(j, j-1) }
RECURSIVE insertDown(_, _)
insertDown(rows, j) ==
  IF j > 1 /\ less(rows, j, j - 1)
  THEN insertDown(swap(rows, j, j - 1), j - 1)
  ELSE rows

\* for i := a + 1; i < b; i++ { ... }
RECURSIVE insertionSort(_, _)
insertionSort(rows, i) ==
  IF i > Len(rows) THEN rows
  ELSE insertionSort(insertDown(rows, i), i + 1)

\* sortRows: sort.Slice in place.  sort.Slice sorts a slice of fewer than
\* 7 elements by insertion sort alone in every release of the library (from
\* 12 elements on it partitions first); the store here holds fewer rows.
sortRows(rows, order) == insertionSort(rows, 2)

\* LimitOp keeping one row more than asked for
limitRowsOneMore(rows, limit) ==
  IF Len(rows) > limit THEN SubSeq(rows, 1, limit + 1) ELSE rows

\* rows[:limit] when len(rows) > limit
limitRows(rows, limit) == IF Len(rows) > limit THEN SubSeq(rows, 1, limit) ELSE rows

\* QueryResult{}
ZeroResult == [Columns |-> <<>>, Rows |-> <<>>]

\* the loop of executeplan from plan.Operations[i] on.  st.rows is the
\* slice in the variable rows, st.shared tells whether it still is the
\* table's own slice (rows = table.Rows), so that a write into it is a
\* write into the table st.db holds; st.columns is result.Columns.
RECURSIVE runPlan(_, _, _, _)
runPlan(ops, i, tableName, st) ==
  IF i > Len(ops) THEN st
  ELSE LET op == ops[i] IN
       IF op.Type = Filter
       THEN runPlan(ops, i + 1, tableName,
                    [st EXCEPT !.rows = filterRows(st.rows, op.Filter),
                               !.shared = FALSE])
       ELSE IF op.Type = Project
       THEN runPlan(ops, i + 1, tableName,
                    [st EXCEPT !.rows = projectRows(st.rows, op.Columns),
                               !.shared = FALSE,
                               !.columns = op.Columns])
       ELSE IF op.Type = Sort
       THEN LET sorted == sortRows(st.rows, op.Order) IN
            runPlan(ops, i + 1, tableName,
                    [st EXCEPT !.rows = sorted,
                               !.db = IF st.shared
                                      THEN [st.db EXCEPT ![tableName].Rows =
                                              sorted \o SubSeq(@, Len(sorted) + 1, Len(@))]
                                      ELSE st.db])
       ELSE IF op.Type = LimitOp
       THEN runPlan(ops, i + 1, tableName,
                    [st EXCEPT !.rows = limitRows(st.rows, op.Limit)])
       ELSE runPlan(ops, i + 1, tableName, st)

\* executeplan going on with the zero Table when the table is missing
executeplanUnchecked(db, plan) ==
  LET tableName == plan.Operations[1].Table
      rows == IF tableName \in DOMAIN db THEN db[tableName].Rows ELSE <<>>
      st == runPlan(plan.Operations, 1, tableName,
                    [rows |-> rows, shared |-> FALSE, columns |-> <<>>, db |-> db])
  IN [db |-> db, result |-> [Columns |-> st.columns, Rows |-> st.rows], err |-> nil]

executeplan(db, plan) ==
  LET tableName == plan.Operations[1].Table IN
  IF tableName \notin DOMAIN db
  THEN [db |-> db, result |-> ZeroResult, err |-> ErrTableNotFound]
  ELSE LET st == runPlan(plan.Operations, 1, tableName,
                         [rows |-> db[tableName].Rows, shared |-> TRUE,
                          columns |-> <<>>, db |-> db])
       IN [db |-> st.db, result |-> [Columns |-> st.columns, Rows |-> st.rows],
           err |-> nil]

ExecuteQuery(db, q) ==
  LET p == createExecutionPlan(q) IN
  IF p.err # nil
  THEN [db |-> db, result |-> ZeroResult, err |-> p.err, plan |-> p.plan]
  ELSE LET r == executeplan(db, p.plan) IN
       IF r.err # nil
       THEN [db |-> r.db, result |-> ZeroResult, err |-> r.err, plan |-> p.plan]
       ELSE [db |-> r.db, result |-> r.result, err |-> nil, plan |-> p.plan]

Query(select, from, where, orderBy, limit) ==
  [Select |-> select, From |-> from, Where |-> where, OrderBy |-> orderBy,
   Limit |-> limit]

\* the queries callers execute
Selects == {<<"id", "k">>, <<"k", "z">>}
Wheres == {"", "x"}
OrderBys == {"", "k"}
Limits == {0, 1, 2}
Froms == {"t1"}
Queries ==
  {Query(s, f, w, o, l) :
     s \in Selects, f \in Froms, w \in Wheres, o \in OrderBys, l \in Limits}

CallExecuteQuery ==
  \E q \in Queries :
    \E r \in {ExecuteQuery(Tables, q)} :
    /\ Tables' = r.db
    /\ last' = Called("ExecuteQuery", q.From, "", NoData, r.err,
                      [query |-> q, plan |-> r.plan, result |-> r.result])
    /\ UNCHANGED notStore

NextQuery ==
  \/ CallCreateTable
  \/ CallInsertRow
  \/ CallExecuteQuery

SpecQuery == Init /\ [][NextQuery]_vars

(***************************************************************************)
(* The transaction tracker.  txs[h] is the Transaction the handle h points *)
(* to; txCalls[h] counts the CommitTransaction and RollbackTransaction     *)
(* calls the sequential caller has made on h.                              *)
(***************************************************************************)
Pending == "Pending"
Committed == "Committed"
RolledBack == "RolledBack"

\* time.Now().Nanosecond(): any value, equal ones included
TxIDs == {0, 1}

\* StartedAt is written once and never read: it is left out
BeginTransaction(id) == [tx |-> [ID |-> id, Status |-> Pending], err |-> nil]

\* CommitTransaction setting Committed whatever the status is
CommitTransactionUnchecked(transaction) ==
  [tx |-> [transaction EXCEPT !.Status = Committed], err |-> nil]

CommitTransaction(transaction) ==
  IF transaction.Status # Pending
  THEN [tx |-> transaction, err |-> ErrTransactionFailed]
  ELSE [tx |-> [transaction EXCEPT !.Status = Committed], err |-> nil]

RollbackTransaction(transaction) ==
  IF transaction.Status # Pending
  THEN [tx |-> transaction, err |-> ErrTransactionFailed]
  ELSE [tx |-> [transaction EXCEPT !.Status = RolledBack], err |-> nil]

notTx == <<Tables, query, parsed, mu, pc, call, local, ret, heap, held>>

CallBeginTransaction ==
  \E id \in TxIDs :
    LET r == BeginTransaction(id) IN
    /\ Len(txs) < MaxTx
    /\ txs' = Append(txs, r.tx)
    /\ txCalls' = Append(txCalls, 0)
    /\ last' = Called("BeginTransaction", "", "", NoData, r.err, Len(txs) + 1)
    /\ UNCHANGED notTx

CallCommitTransaction ==
  \E h \in 1..Len(txs) :
    LET r == CommitTransaction(txs[h]) IN
    /\ txCalls[h] < MaxTxCalls
    /\ txs' = [txs EXCEPT ![h] = r.tx]
    /\ txCalls' = [txCalls EXCEPT ![h] = @ + 1]
    /\ last' = Called("CommitTransaction", "", "", NoData, r.err, h)
    /\ UNCHANGED notTx

CallRollbackTransaction ==
  \E h \in 1..Len(txs) :
    LET r == RollbackTransaction(txs[h]) IN
    /\ txCalls[h] < MaxTxCalls
    /\ txs' = [txs EXCEPT ![h] = r.tx]
    /\ txCalls' = [txCalls EXCEPT ![h] = @ + 1]
    /\ last' = Called("RollbackTransaction", "", "", NoData, r.err, h)
    /\ UNCHANGED notTx

NextTx ==
  \/ CallBeginTransaction
  \/ CallCommitTransaction
  \/ CallRollbackTransaction

SpecTx == Init /\ [][NextTx]_vars

(***************************************************************************)
(* The query texts ParseQuery is applied to: a head, then up to MaxTail    *)
(* tokens, joined by white space.                                          *)
(***************************************************************************)
tSELECT == <<"S", "E", "L", "E", "C", "T">>
tFROM == <<"F", "R", "O", "M">>
tUsers == <<"u", "s", "e", "r", "s">>
tA == <<"a">>
tB == <<"b">>
tX == <<"x">>
t5 == <<"5">>
tBy == <<"b", "y">>

Heads == {<<tSELECT, tA, tB, tFROM, tUsers>>, <<tSELECT, tA, tB, tUsers>>,
          <<tSELECT, tA>>}
TailToks == {kwWHERE, tX, kwLIMIT, t5, kwORDER, tBy}
Tails == UNION {[1..n -> TailToks] : n \in 0..MaxTail}
Seps == {<<" ">>, <<"\t", " ">>}

RECURSIVE Join(_, _)
Join(toks, sep) ==
  IF toks = <<>> THEN <<>>
  ELSE IF Len(toks) = 1 THEN toks[1]
  ELSE toks[1] \o sep \o Join(Tail(toks), sep)

QueryTexts == {Join(h \o t, sep) : h \in Heads, t \in Tails, sep \in Seps}

notParse == <<Tables, last, txs, txCalls, mu, pc, call, local, ret, heap, held>>

InitParse ==
  /\ Tables = NoTables
  /\ last = Called("none", "", "", NoData, nil, NoOut)
  /\ txs = <<>>
  /\ txCalls = <<>>
  /\ query \in QueryTexts
  /\ parsed = [kind |-> "none", q |-> NilQuery, err |-> nil]
  /\ mu = [w |-> 0, r |-> 0]
  /\ pc = <<>>
  /\ call = <<>>
  /\ local = <<>>
  /\ ret = <<>>
  /\ heap = NoHeap
  /\ held = NoHeld

CallParseQuery ==
  /\ parsed.kind = "none"
  /\ parsed' = ParseQuery(query)
  /\ UNCHANGED query
  /\ UNCHANGED notParse

NextParse == CallParseQuery

SpecParse == InitParse /\ [][NextParse]_vars

\* "SELECT a b FROM users WHERE x LIMIT 5"
ExampleQuery ==
  <<"S", "E", "L", "E", "C", "T", " ", "a", " ", "b", " ", "F", "R", "O", "M",
    " ", "u", "s", "e", "r", "s", " ", "W", "H", "E", "R", "E", " ", "x", " ",
    "L", "I", "M", "I", "T", " ", "5">>

\* C3: a text "SELECT a b FROM users WHERE p LIMIT 5" parses to the Query
\* with Select = [a, b], From = users, Where = p, Limit = 5, OrderBy = "".
C3_ParseExample ==
  \A p \in {tX, tBy} :
    (/\ parsed.kind # "none"
     /\ query = Join(<<tSELECT, tA, tB, tFROM, tUsers, kwWHERE, p, kwLIMIT, t5>>,
                     <<" ">>)) =>
      /\ (p = tX => query = ExampleQuery)
      /\ parsed.kind = "query"
      /\ parsed.q = [Select |-> <<tA, tB>>, From |-> tUsers, Where |-> p,
                      OrderBy |-> <<>>, Limit |-> 5]

\* C4: ParseQuery returns a Query or an error for every text; it never
\* panics by reading a token past the end of the token list.
C4_ParseNeverPanics == parsed.kind \in {"none", "query", "error"}

(***************************************************************************)
(* Concurrent callers.  Each caller makes one call.  A method takes the    *)
(* database's sync.RWMutex (Lock for a write, RLock for a read), runs its  *)
(* body, and its deferred Unlock/RUnlock runs as it returns.  The body of  *)
(* a write is two steps: it reads the store and decides (the existence and *)
(* uniqueness checks), then it stores what it built.                       *)
(* mu.w is 1 while a writer holds the mutex, mu.r counts the readers that  *)
(* hold it.  Lock waits for w = 0 and r = 0, RLock for w = 0 (that RLock   *)
(* also waits behind a writer that is waiting only removes behaviours).    *)
(***************************************************************************)
Procs == {"p1", "p2"}

\* the methods that take db.mu.Lock()
WriteOps ==
  {"CreateTable", "DropTable", "InsertRow", "UpdateRow", "DeleteRow",
   "BeginTransaction", "CommitTransaction", "RollbackTransaction"}
\* the methods that take db.mu.RLock()
ReadOps == {"GetRowByID", "GetAllRows", "CountRows", "ExecuteQuery"}

NoQuery == Query(<<>>, "", "", "", 0)

\* h is the transaction handle of a CommitTransaction or RollbackTransaction
\* call, and the ID that BeginTransaction draws from the clock
Call(op, t, id, data, h) ==
  [op |-> op, table |-> t, id |-> id, data |-> data, h |-> h, q |-> NoQuery]

QueryCall(q) == [Call("ExecuteQuery", q.From, "", NoData, 0) EXCEPT !.q = q]

\* the queries and the new data the concurrent callers pass
ConcQueries == {Query(<<"id", "k">>, f, "", "", 0) : f \in TableNames}
ConcData == {("k" :> StrVal("x"))}

NoCall == Call("none", "", "", NoData, 0)

\* the calls a caller may make
Calls ==
  {Call("InsertRow", t, id, d, 0) : t \in TableNames, id \in Ids, d \in DataMaps}
    \cup {Call("CreateTable", t, "", NoData, 0) : t \in TableNames}
    \cup {Call(op, "", "", NoData, 1) : op \in {"CommitTransaction", "RollbackTransaction"}}
    \cup {Call("GetRowByID", t, id, NoData, 0) : t \in TableNames, id \in Ids}

\* one call of every method that takes the lock, on the table that is
\* there and on one that is not
LockCalls ==
  {Call(op, t, "", NoData, 0) :
     op \in {"CreateTable", "DropTable", "GetAllRows", "CountRows"}, t \in TableNames}
    \cup {Call(op, t, "a", NoData, 0) :
            op \in {"InsertRow", "DeleteRow", "GetRowByID"}, t \in TableNames}
    \cup {Call("UpdateRow", t, "a", d, 0) : t \in TableNames, d \in ConcData}
    \cup {QueryCall(q) : q \in ConcQueries}
    \cup {Call("BeginTransaction", "", "", NoData, 1)}
    \cup {Call(op, "", "", NoData, 1) : op \in {"CommitTransaction", "RollbackTransaction"}}

\* what the body of the called method computes from the store it reads:
\* the table map and transaction it would store, and what it returns
Body(db, tx, c) ==
  CASE c.op = "InsertRow" ->
         LET r == InsertRow(db, c.table, c.id, c.data) IN
         [db |-> r.db, tx |-> tx, err |-> r.err, out |-> NoOut]
    [] c.op = "CreateTable" ->
         LET r == CreateTable(db, c.table) IN
         [db |-> r.db, tx |-> tx, err |-> r.err, out |-> NoOut]
    [] c.op = "CommitTransaction" ->
         LET r == CommitTransaction(tx[c.h]) IN
         [db |-> db, tx |-> [tx EXCEPT ![c.h] = r.tx], err |-> r.err, out |-> NoOut]
    [] c.op = "RollbackTransaction" ->
         LET r == RollbackTransaction(tx[c.h]) IN
         [db |-> db, tx |-> [tx EXCEPT ![c.h] = r.tx], err |-> r.err, out |-> NoOut]
    [] c.op = "GetRowByID" ->
         LET r == GetRowByID(db, c.table, c.id) IN
         [db |-> db, tx |-> tx, err |-> r.err, out |-> r.row]
    [] c.op = "DropTable" ->
         LET r == DropTable(db, c.table) IN
         [db |-> r.db, tx |-> tx, err |-> r.err, out |-> NoOut]
    [] c.op = "UpdateRow" ->
         LET r == UpdateRow(db, c.table, c.id, c.data) IN
         [db |-> r.db, tx |-> tx, err |-> r.err, out |-> NoOut]
    [] c.op = "DeleteRow" ->
         LET r == DeleteRow(db, c.table, c.id) IN
         [db |-> r.db, tx |-> tx, err |-> r.err, out |-> NoOut]
    [] c.op = "GetAllRows" ->
         LET r == GetAllRows(db, c.table) IN
         [db |-> db, tx |-> tx, err |-> r.err, out |-> r.rows]
    [] c.op = "CountRows" ->
         LET r == CountRows(db, c.table) IN
         [db |-> db, tx |-> tx, err |-> r.err, out |-> <<r.n>>]
    [] c.op = "ExecuteQuery" ->
         LET r == ExecuteQuery(db, c.q) IN
         [db |-> r.db, tx |-> tx, err |-> r.err, out |-> r.result]
    [] c.op = "BeginTransaction" ->
         LET r == BeginTransaction(c.h) IN
         [db |-> db, tx |-> tx, err |-> r.err, out |-> r.tx]

NoLocal == [db |-> NoTables, tx |-> <<>>, err |-> nil, out |-> NoOut]
NoRet == [err |-> "pending", out |-> NoOut]

\* db.mu.Lock() may return
canLock(m) == m.w = 0 /\ m.r = 0
\* db.mu.RLock() may return
canRLock(m) == m.w = 0

notConc == <<last, txCalls, query, parsed, heap, held>>

\* a caller enters a method and calls Lock or RLock
Enter(p) ==
  /\ pc[p] = "idle"
  /\ \E c \in Calls : call' = [call EXCEPT ![p] = c]
  /\ pc' = [pc EXCEPT ![p] = "lock"]
  /\ UNCHANGED <<Tables, txs, mu, local, ret>>
  /\ UNCHANGED notConc

\* a caller enters any of the methods that take the lock
EnterAny(p) ==
  /\ pc[p] = "idle"
  /\ \E c \in LockCalls : call' = [call EXCEPT ![p] = c]
  /\ pc' = [pc EXCEPT ![p] = "lock"]
  /\ UNCHANGED <<Tables, txs, mu, local, ret>>
  /\ UNCHANGED notConc

\* Lock or RLock returns
Acquire(p) ==
  /\ pc[p] = "lock"
  /\ IF call[p].op \in WriteOps
     THEN canLock(mu) /\ mu' = [mu EXCEPT !.w = 1]
     ELSE canRLock(mu) /\ mu' = [mu EXCEPT !.r = @ + 1]
  /\ pc' = [pc EXCEPT ![p] = "body"]
  /\ UNCHANGED <<Tables, txs, call, local, ret>>
  /\ UNCHANGED notConc

\* the body reads the store and runs its checks; a read, or a write whose
\* check fails, has its return value
Read(p) ==
  /\ pc[p] = "body"
  /\ LET r == Body(Tables, txs, call[p]) IN
     /\ local' = [local EXCEPT ![p] = r]
     /\ IF call[p].op \in WriteOps /\ r.err = nil
        THEN pc' = [pc EXCEPT ![p] = "write"] /\ UNCHANGED ret
        ELSE /\ pc' = [pc EXCEPT ![p] = "unlock"]
             /\ ret' = [ret EXCEPT ![p] = [err |-> r.err, out |-> r.out]]
  /\ UNCHANGED <<Tables, txs, mu, call>>
  /\ UNCHANGED notConc

\* the body stores what it built: db.Tables[tableName] = table,
\* delete(db.Tables, tableName), or transaction.Status = ...; the
\* Transaction that BeginTransaction builds is the caller's alone
Write(p) ==
  /\ pc[p] = "write"
  /\ CASE call[p].op \in {"CommitTransaction", "RollbackTransaction"} ->
            /\ txs' = [txs EXCEPT ![call[p].h] = local[p].tx[call[p].h]]
            /\ UNCHANGED Tables
       [] call[p].op = "BeginTransaction" ->
            UNCHANGED <<Tables, txs>>
       [] call[p].op = "DropTable" ->
            /\ Tables' = [n \in DOMAIN Tables \ {call[p].table} |-> Tables[n]]
            /\ UNCHANGED txs
       [] OTHER ->
            /\ Tables' = (call[p].table :> local[p].db[call[p].table]) @@ Tables
            /\ UNCHANGED txs
  /\ ret' = [ret EXCEPT ![p] = [err |-> nil, out |-> local[p].out]]
  /\ pc' = [pc EXCEPT ![p] = "unlock"]
  /\ UNCHANGED <<mu, call, local>>
  /\ UNCHANGED notConc

\* a return that unlocks only when the method succeeded
ReleaseOnSuccess(p) ==
  /\ pc[p] = "unlock"
  /\ IF ret[p].err # nil
     THEN UNCHANGED mu
     ELSE IF call[p].op \in WriteOps
          THEN mu' = [mu EXCEPT !.w = 0]
          ELSE mu' = [mu EXCEPT !.r = @ - 1]
  /\ pc' = [pc EXCEPT ![p] = "done"]
  /\ UNCHANGED <<Tables, txs, call, local, ret>>
  /\ UNCHANGED notConc

\* the deferred Unlock or RUnlock, and the return
Release(p) ==
  /\ pc[p] = "unlock"
  /\ IF call[p].op \in WriteOps
     THEN mu' = [mu EXCEPT !.w = 0]
     ELSE mu' = [mu EXCEPT !.r = @ - 1]
  /\ pc' = [pc EXCEPT ![p] = "done"]
  /\ UNCHANGED <<Tables, txs, call, local, ret>>
  /\ UNCHANGED notConc

\* the store the callers start on: table t1, empty, and one transaction
\* that BeginTransaction returned
InitConc ==
  /\ Tables = ("t1" :> [Name |-> "t1", Rows |-> <<>>])
  /\ last = Called("none", "", "", NoData, nil, NoOut)
  /\ txs = <<BeginTransaction(0).tx>>
  /\ txCalls = <<0>>
  /\ query = <<>>
  /\ parsed = [kind |-> "none", q |-> NilQuery, err |-> nil]
  /\ mu = [w |-> 0, r |-> 0]
  /\ pc = [p \in Procs |-> "idle"]
  /\ call = [p \in Procs |-> NoCall]
  /\ local = [p \in Procs |-> NoLocal]
  /\ ret = [p \in Procs |-> NoRet]
  /\ heap = NoHeap
  /\ held = NoHeld

NextConc ==
  \E p \in Procs :
    \/ Enter(p)
    \/ Acquire(p)
    \/ Read(p)
    \/ Write(p)
    \/ Release(p)

SpecConc == InitConc /\ [][NextConc]_vars

\* the next step of a caller that has called a method
Step(p) == Acquire(p) \/ Read(p) \/ Write(p) \/ Release(p)

\* a caller that can go on (Lock or RLock can return, or the caller is in
\* the body or at its return) does go on; nothing makes a caller call
FairConc == \A p \in Procs : WF_vars(Step(p))

NextConcAny == \E p \in Procs : EnterAny(p) \/ Step(p)

SpecConcFair == InitConc /\ [][NextConcAny]_vars /\ FairConc

AllDone == \A p \in Procs : pc[p] = "done"
InCS(p) == pc[p] \in {"body", "write", "unlock"}

\* the rows of table t that equal row
Occurrences(t, row) == {n \in 1..Len(Tables[t].Rows) : Tables[t].Rows[n] = row}

\* C9: when the callers have run InsertRow calls with pairwise distinct
\* (table, id) pairs on existing tables, every call has succeeded and each
\* table holds each inserted row, and nothing else.
C9_NoLostInserts ==
  (/\ AllDone
   /\ \A p \in Procs : call[p].op = "InsertRow" /\ call[p].table = "t1"
   /\ \A p, q \in Procs : p # q => call[p].id # call[q].id) =>
    /\ \A p \in Procs : ret[p].err = nil
    /\ Len(Tables["t1"].Rows) = Cardinality(Procs)
    /\ \A p \in Procs :
         Occurrences("t1", newRowOf(call[p].id, call[p].data)) # {}

\* exactly one of the callers got nil and every other got err
OneSucceeds(err) ==
  /\ Cardinality({p \in Procs : ret[p].err = nil}) = 1
  /\ \A p \in Procs : ret[p].err \in {nil, err}

\* C10: of two concurrent InsertRow calls with the same table and id exactly
\* one succeeds and the other returns ErrIDExists; likewise two CreateTable
\* calls of one name (ErrTableExists) and a CommitTransaction and a
\* RollbackTransaction on one handle (ErrTransactionFailed); and no writer is
\* in its critical section while another writer or a reader is in theirs.
C10_AtomicCheckThenAct ==
  /\ \A p, q \in Procs :
       (p # q /\ InCS(p) /\ InCS(q)) =>
         (call[p].op \in ReadOps /\ call[q].op \in ReadOps)
  /\ (/\ AllDone
      /\ \A p \in Procs : call[p].op = "InsertRow" /\ call[p].table = "t1"
      /\ \A p, q \in Procs : call[p].id = call[q].id) => OneSucceeds(ErrIDExists)
  /\ (/\ AllDone
      /\ \A p \in Procs : call[p].op = "CreateTable" /\ call[p].table = "t2")
       => OneSucceeds(ErrTableExists)
  /\ (/\ AllDone
      /\ {call[p].op : p \in Procs} = {"CommitTransaction", "RollbackTransaction"}
      /\ \A p, q \in Procs : call[p].h = call[q].h)
       => OneSucceeds(ErrTransactionFailed)

\* C8: on every handle the first CommitTransaction or RollbackTransaction
\* call succeeds and sets Committed or RolledBack, every later call returns
\* ErrTransactionFailed, and a status that is Committed or RolledBack never
\* changes again.
C8_TransactionOneShot ==
  [][/\ \A h \in 1..Len(txs) :
          txs[h].Status \in {Committed, RolledBack} => txs'[h] = txs[h]
     /\ (last'.op \in {"CommitTransaction", "RollbackTransaction"}) =>
          LET h == last'.out IN
          /\ txCalls'[h] = txCalls[h] + 1
          /\ (txCalls[h] = 0) =>
               /\ last'.err = nil
               /\ txs[h].Status = Pending
               /\ txs'[h].Status = IF last'.op = "CommitTransaction"
                                    THEN Committed ELSE RolledBack
          /\ (txCalls[h] > 0) =>
               /\ last'.err = ErrTransactionFailed
               /\ txs'[h] = txs[h]]_vars

\* a second call on a handle that was committed has failed
C8_Witness ==
  /\ last.op \in {"CommitTransaction", "RollbackTransaction"}
  /\ last.err = ErrTransactionFailed
  /\ txCalls[last.out] = 2
  /\ txs[last.out].Status = Committed

(***************************************************************************)
(* Properties of the table store.                                          *)
(***************************************************************************)
Writes == {"CreateTable", "DropTable", "InsertRow", "UpdateRow", "DeleteRow"}

\* the error kinds each write may return
ErrorsOf(op) ==
  CASE op = "CreateTable" -> {ErrTableExists}
    [] op = "DropTable" -> {ErrTableNotFound}
    [] op = "InsertRow" -> {ErrTableNotFound, ErrIDExists}
    [] op = "UpdateRow" -> {ErrTableNotFound, ErrIDNotFound}
    [] op = "DeleteRow" -> {ErrTableNotFound, ErrIDNotFound}
    [] OTHER -> {}

\* C1: in every reachable state of the store no table holds two rows whose
\* "id" values are equal.
C1_RowIdsUnique ==
  \A t \in DOMAIN Tables :
    \A i, j \in 1..Len(Tables[t].Rows) :
      i # j => Tables[t].Rows[i].Columns["id"] # Tables[t].Rows[j].Columns["id"]

\* C2: right after a successful InsertRow(t, id, d), GetRowByID(t, id)
\* succeeds and returns a row whose "id" is id and that holds every key of d
\* with the value d gave it.
C2_InsertThenGet ==
  (last.op = "InsertRow" /\ last.err = nil) =>
    LET g == GetRowByID(Tables, last.table, last.id) IN
    /\ g.err = nil
    /\ "id" \in DOMAIN g.row.Columns
    /\ g.row.Columns["id"] = StrVal(last.id)
    /\ \A key \in DOMAIN last.data :
         /\ key \in DOMAIN g.row.Columns
         /\ g.row.Columns[key] = last.data[key]

\* C5: a write that returns an error returns one of its documented kinds and
\* leaves the set of tables and every table's rows as they were.
C5_FailedWriteLeavesStore ==
  [][(last'.op \in Writes /\ last'.err # nil) =>
       /\ last'.err \in ErrorsOf(last'.op)
       /\ Tables' = Tables]_vars

\* a second insert of an id was refused with ErrIDExists
C5_Witness ==
  /\ last.op = "InsertRow"
  /\ last.err = ErrIDExists
  /\ Len(Tables[last.table].Rows) >= 1

\* C6: right after a successful DeleteRow(t, id), GetRowByID(t, id) returns
\* ErrIDNotFound and CountRows(t) is one less than before the delete.
C6_DeleteThenGet ==
  [][(last'.op = "DeleteRow" /\ last'.err = nil) =>
       /\ GetRowByID(Tables', last'.table, last'.id).err = ErrIDNotFound
       /\ CountRows(Tables', last'.table).n
            = CountRows(Tables, last'.table).n - 1]_vars

\* C7: a successful UpdateRow(t, id, newData) changes only the first row of
\* t whose "id" matched: that row holds newData's keys with their new values
\* and its other keys with their old values; the other rows, the row count
\* and order of t, and the other tables are as before.
C7_UpdateMerges ==
  [][(last'.op = "UpdateRow" /\ last'.err = nil) =>
       LET t == last'.table
           old == Tables[t].Rows
           new == Tables'[t].Rows
           i == CHOOSE n \in 1..Len(old) :
                  /\ idMatches(old[n], last'.id)
                  /\ \A m \in 1..(n - 1) : ~idMatches(old[m], last'.id)
       IN /\ DOMAIN Tables' = DOMAIN Tables
          /\ \A u \in DOMAIN Tables \ {t} : Tables'[u] = Tables[u]
          /\ Tables'[t].Name = Tables[t].Name
          /\ Len(new) = Len(old)
          /\ \A j \in 1..Len(old) : j # i => new[j] = old[j]
          /\ \A key \in DOMAIN last'.data :
               /\ key \in DOMAIN new[i].Columns
               /\ new[i].Columns[key] = last'.data[key]
          /\ \A key \in DOMAIN old[i].Columns \ DOMAIN last'.data :
               /\ key \in DOMAIN new[i].Columns
               /\ new[i].Columns[key] = old[i].Columns[key]]_vars

\* an update changed the "id" of the first of two rows and kept its "k"
C7_Witness ==
  /\ last.op = "UpdateRow"
  /\ last.err = nil
  /\ DOMAIN last.data = {"id"}
  /\ Len(Tables[last.table].Rows) = 2
  /\ "k" \in DOMAIN Tables[last.table].Rows[1].Columns
  /\ Tables[last.table].Rows[1].Columns["id"] = last.data["id"]
  /\ last.data["id"] # StrVal(last.id)

(***************************************************************************)
(* Properties of query execution.                                          *)
(***************************************************************************)
IsQuery(l) == l.op = "ExecuteQuery"

\* C12: ExecuteQuery on a Query whose From table is not in the store
\* returns ErrTableNotFound with the empty QueryResult and leaves the store
\* as it was.
C12_QueryMissingTable ==
  [][(IsQuery(last') /\ last'.out.query.From \notin DOMAIN Tables) =>
       /\ last'.err = ErrTableNotFound
       /\ last'.out.result.Columns = <<>>
       /\ last'.out.result.Rows = <<>>
       /\ Tables' = Tables]_vars

\* a query on a missing table failed while the store held a row elsewhere
C12_Witness ==
  /\ IsQuery(last)
  /\ last.err = ErrTableNotFound
  /\ last.table \notin DOMAIN Tables
  /\ \E t \in DOMAIN Tables : Len(Tables[t].Rows) >= 1

\* C15: the Sort step leaves the order of the rows as it was: a query with
\* ORDER BY returns the rows the same query without ORDER BY returns, in the
\* same order.
C15_SortKeepsOrder ==
  (IsQuery(last) /\ last.err = nil) =>
    last.out.result.Rows
      = ExecuteQuery(Tables, [last.out.query EXCEPT !.OrderBy = ""]).result.Rows

\* the Operation types a Query's plan is to hold, in order
PlanShape(q) ==
  <<Scan>> \o (IF q.Where # "" THEN <<Filter>> ELSE <<>>) \o <<Project>>
    \o (IF q.OrderBy # "" THEN <<Sort>> ELSE <<>>)
    \o (IF q.Limit > 0 THEN <<LimitOp>> ELSE <<>>)

\* C16: the plan of a Query is Scan(From), Filter(Where) iff Where is not
\* empty, Project(Select), Sort(OrderBy) iff OrderBy is not empty, LimitOp
\* iff Limit > 0, in this order and nothing else; the first Operation has no
\* parent and every later one has the Operation before it as its parent.
C16_PlanShape ==
  IsQuery(last) =>
    LET q == last.out.query
        ops == last.out.plan.Operations
    IN /\ Len(ops) = Len(PlanShape(q))
       /\ \A n \in 1..Len(ops) :
            /\ ops[n].Type = PlanShape(q)[n]
            /\ ops[n].Type = Scan => ops[n].Table = q.From
            /\ ops[n].Type = Filter => ops[n].Filter = q.Where
            /\ ops[n].Type = Project => ops[n].Columns = q.Select
            /\ ops[n].Type = Sort => ops[n].Order = q.OrderBy
            /\ ops[n].Type = LimitOp => ops[n].Limit = q.Limit
            /\ ops[n].Parent = IF n = 1 THEN <<>> ELSE <<ops[n - 1]>>

\* a plan with all five Operations was built
C16_Witness ==
  /\ IsQuery(last)
  /\ Len(last.out.plan.Operations) = 5
  /\ last.out.query.Limit = 2

\* C17: a query without ORDER BY on a table of N rows returns Select as
\* its columns and the first min(Limit, N) rows of the table (all N when
\* Limit = 0) in insertion order, each cut down to the selected columns it
\* holds, whatever the WHERE text is.
C17_QueryRows ==
  (IsQuery(last) /\ last.table \in DOMAIN Tables /\ last.out.query.OrderBy = "") =>
    LET q == last.out.query
        rows == Tables[last.table].Rows
        n == IF q.Limit = 0 \/ q.Limit > Len(rows) THEN Len(rows) ELSE q.Limit
        got == last.out.result
    IN /\ last.err = nil
       /\ got.Columns = q.Select
       /\ Len(got.Rows) = n
       /\ \A i \in 1..n :
            /\ DOMAIN got.Rows[i].Columns
                 = {c \in DOMAIN rows[i].Columns : \E m \in 1..Len(q.Select) : q.Select[m] = c}
            /\ \A c \in DOMAIN got.Rows[i].Columns :
                 got.Rows[i].Columns[c] = rows[i].Columns[c]

\* a query with a WHERE text and LIMIT 1 returned the first of two rows,
\* which lacks one selected column and holds an unselected one
C17_Witness ==
  /\ IsQuery(last)
  /\ last.err = nil
  /\ last.out.query.OrderBy = ""
  /\ last.out.query.Where # ""
  /\ last.out.query.Limit = 1
  /\ last.out.query.Select = <<"k", "z">>
  /\ Len(Tables[last.table].Rows) = 2
  /\ Len(last.out.result.Rows) = 1
  /\ DOMAIN last.out.result.Rows[1].Columns = {"k"}
  /\ "k" \notin DOMAIN Tables[last.table].Rows[2].Columns

\* C19: ExecuteQuery leaves the set of tables and every table's rows, their
\* order and their contents as they were, whether it succeeds or fails.
C19_QueryReadOnly ==
  [][IsQuery(last') => Tables' = Tables]_vars

\* a query with ORDER BY and LIMIT and no WHERE ran on a table of two different
\* rows
C19_Witness ==
  /\ IsQuery(last)
  /\ last.err = nil
  /\ last.out.query.OrderBy # ""
  /\ last.out.query.Where = ""
  /\ last.out.query.Limit = 1
  /\ Len(Tables[last.table].Rows) = 2
  /\ Tables[last.table].Rows[1] # Tables[last.table].Rows[2]

(***************************************************************************)
(* Properties of CreateTable.                                              *)
(***************************************************************************)
\* C13: CreateTable(t) succeeds iff t is absent, and then adds an empty
\* table named t and touches no other table; otherwise it returns
\* ErrTableExists; a CreateTable(t) right after a successful CreateTable(t)
\* returns ErrTableExists.
C13_CreateTable ==
  [][last'.op = "CreateTable" =>
       LET t == last'.table IN
       /\ (last'.err = nil) <=> (t \notin DOMAIN Tables)
       /\ last'.err # nil => (last'.err = ErrTableExists /\ Tables' = Tables)
       /\ last'.err = nil =>
            /\ DOMAIN Tables' = DOMAIN Tables \cup {t}
            /\ Tables'[t].Name = t
            /\ Tables'[t].Rows = <<>>
            /\ \A n \in DOMAIN Tables : Tables'[n] = Tables[n]
       /\ (last.op = "CreateTable" /\ last.err = nil /\ last.table = t) =>
            last'.err = ErrTableExists]_vars

\* CreateTable was refused for a table that holds a row, which it kept
C13_Witness ==
  /\ last.op = "CreateTable"
  /\ last.err = ErrTableExists
  /\ Len(Tables[last.table].Rows) >= 1
  /\ \E n \in DOMAIN Tables : n # last.table

(***************************************************************************)
(* Properties of ParseQuery on short texts and on LIMIT.                   *)
(***************************************************************************)
\* C14: ParseQuery of a text of fewer than 4 tokens fails with
\* ErrInvalidQuery and returns no Query.
C14_ShortQueryInvalid ==
  (parsed.kind # "none" /\ Len(Fields(query)) < 4) =>
    /\ parsed.kind = "error"
    /\ parsed.err = ErrInvalidQuery
    /\ parsed.q = NilQuery

\* tok is read as an integer whatever the limit was before
Numeric(tok) == Sscan(tok, 0) = Sscan(tok, 1)

\* parts[i] is LIMIT and parts[i+1] is there
LimitAt(parts, i) ==
  i >= 4 /\ i + 1 < Len(parts) /\ ToUpper(At(parts, i)) = kwLIMIT

\* C18: when a LIMIT at index >= 4 is followed by a token that is no
\* number (and no later LIMIT is followed by a number), ParseQuery returns
\* no error and the Query it returns has Limit 0, also when an earlier LIMIT
\* was followed by a number.
C18_NonNumericLimitIsZero ==
  LET parts == Fields(query) IN
  (/\ parsed.kind # "none"
   /\ \E i \in 4..Len(parts) :
        /\ LimitAt(parts, i)
        /\ ~Numeric(At(parts, i + 1))
        /\ \A j \in (i + 1)..Len(parts) :
             LimitAt(parts, j) => ~Numeric(At(parts, j + 1)))
    => (/\ parsed.kind # "error"
        /\ parsed.kind = "query" => parsed.q.Limit = 0)

(***************************************************************************)
(* Properties of the lock.                                                 *)
(***************************************************************************)
\* the callers between Lock/RLock returning and the deferred unlock
Holders(ops) == {p \in Procs : InCS(p) /\ call[p].op \in ops}

\* the lock is held exactly by the callers inside a method
LockMatchesHolders ==
  /\ mu.w = Cardinality(Holders(WriteOps))
  /\ mu.r = Cardinality(Holders(ReadOps))

\* C11: every method gives the lock back on every return, with or without
\* an error: the lock is held exactly by the callers that are inside a
\* method, every caller that has called a method returns from it, and a
\* lock that is held becomes free.
C11_LockReleased ==
  /\ []LockMatchesHolders
  /\ \A p \in Procs : (pc[p] = "lock") ~> (pc[p] = "done")
  /\ (~canLock(mu)) ~> canLock(mu)

\* both callers have returned, one from a write and one from a query, each
\* with an error, and the lock is free
C11_Witness ==
  /\ AllDone
  /\ canLock(mu)
  /\ \E p, q \in Procs :
       /\ call[p].op = "UpdateRow" /\ ret[p].err = ErrIDNotFound
       /\ call[q].op = "ExecuteQuery" /\ ret[q].err = ErrTableNotFound

(***************************************************************************)
(* A caller that keeps what a read returned while writes go on.  Table t1  *)
(* is there; Tables is the rows as values, heap the rows as Go lays them   *)
(* out, held what the caller has of its last GetAllRows or GetRowByID,     *)
(* with the rows it showed when the method returned.                       *)
(***************************************************************************)
AliasData == {NoData} \cup ConcData

notAlias == <<txs, txCalls, query, parsed, mu, pc, call, local, ret>>

InitAlias ==
  /\ Tables = ("t1" :> [Name |-> "t1", Rows |-> <<>>])
  /\ last = Called("none", "", "", NoData, nil, NoOut)
  /\ InitIdle

KeepInsertRow ==
  /\ Len(heap.maps) < MaxMaps
  /\ \E id \in Ids, d \in AliasData :
       \E r \in {InsertRowInPlace(heap, id, d)} :
         /\ heap' = r.heap
         /\ Tables' = InsertRow(Tables, "t1", id, d).db
         /\ last' = Called("InsertRow", "t1", id, d, r.err, NoOut)
  /\ UNCHANGED held
  /\ UNCHANGED notAlias

KeepUpdateRow ==
  /\ \E id \in Ids, d \in ConcData :
       \E r \in {UpdateRowInPlace(heap, id, d)} :
         /\ heap' = r.heap
         /\ Tables' = UpdateRow(Tables, "t1", id, d).db
         /\ last' = Called("UpdateRow", "t1", id, d, r.err, NoOut)
  /\ UNCHANGED held
  /\ UNCHANGED notAlias

KeepDeleteRow ==
  /\ \E id \in Ids :
       \E r \in {DeleteRowInPlace(heap, id)} :
         /\ heap' = r.heap
         /\ Tables' = DeleteRow(Tables, "t1", id).db
         /\ last' = Called("DeleteRow", "t1", id, NoData, r.err, NoOut)
  /\ UNCHANGED held
  /\ UNCHANGED notAlias

\* return table.Rows, nil
KeepGetAllRows ==
  /\ held' = Held("rows", heap.hdr, 0, rowsOf(heap, heap.hdr))
  /\ last' = Called("GetAllRows", "t1", "", NoData, nil, NoOut)
  /\ UNCHANGED <<Tables, heap>>
  /\ UNCHANGED notAlias

\* return row, nil
KeepGetRowByID ==
  /\ \E id \in Ids :
       LET i == firstMatch(rowsOf(heap, heap.hdr), id) IN
       IF i = 0
       THEN /\ last' = Called("GetRowByID", "t1", id, NoData, ErrIDNotFound, NoOut)
            /\ UNCHANGED held
       ELSE /\ last' = Called("GetRowByID", "t1", id, NoData, nil, NoOut)
            /\ held' = Held("row", NoHdr, heap.arrays[heap.hdr.arr][i],
                            <<rowAt(heap, heap.hdr, i)>>)
  /\ UNCHANGED <<Tables, heap>>
  /\ UNCHANGED notAlias

NextAlias ==
  \/ KeepInsertRow
  \/ KeepUpdateRow
  \/ KeepDeleteRow
  \/ KeepGetAllRows
  \/ KeepGetRowByID

SpecAlias == InitAlias /\ [][NextAlias]_vars

\* the rows as Go lays them out are the rows of the store
HeapIsStore == rowsOf(heap, heap.hdr) = Tables["t1"].Rows

\* what the caller sees now through what it holds
HeldNow ==
  IF held.kind = "rows" THEN rowsOf(heap, held.hdr)
  ELSE IF held.kind = "row" THEN <<[Columns |-> heap.maps[held.ref]]>>
  ELSE <<>>

\* C20: the rows that GetAllRows returned, and the row that GetRowByID
\* returned, stay what they were when the method returned, whatever
\* InsertRow, UpdateRow and DeleteRow calls are made on the table afterwards.
C20_ReadsAreSnapshots == HeldNow = held.rows

====
